---- MODULE Spec2Model ----
(***************************************************************************)
(* The log tailing and shipping pipeline of ObservabilityAgent             *)
(* (src/agent.py): the poll thread (_monitor_files) tails the watched      *)
(* files and appends records to log_buffer, the flush thread (_flush_loop) *)
(* and stop() drain it through _flush_logs, which POSTs the batch and      *)
(* re-admits it on failure.  The file writer / log rotation and the        *)
(* ingestion server are the environment.                                   *)
(*                                                                         *)
(* The code takes no lock anywhere.  Under the interpreter lock one list   *)
(* operation (append, copy, clear, extend) is atomic, and a thread switch  *)
(* can happen between any two of them: each such operation is one step.    *)
(***************************************************************************)
EXTENDS Integers, Sequences, FiniteSets, TLC

\* ------------------------------------------------------------------ bounds
MaxWrites == 3          \* bytes the writer appends in one behaviour
MaxTruncates == 1       \* truncations (log rotations) in one behaviour
MaxLines == 2           \* whole lines the writer appends under Spec and SeqSpec
MaxGrowLines == 3       \* whole lines the writer appends under GrowSpec
MaxFailures == 2        \* the count of a record's failed sends saturates here
BatchSize == 2          \* config 'batch_size' (100 by default), scaled down
MaxSignals == 1         \* termination signals delivered in one behaviour
MaxRestarts == 1        \* times the process is started again after it exited
MaxFaults == 2          \* changes of a file's accessibility and failed reads
MaxDropped == 1         \* lines whose record construction raises

\* ----------------------------------------------------------- configuration
Threads == {"main", "poll", "flush"}
LogFiles == <<"app.log", "db.log">>        \* config 'log_files'
Files == {LogFiles[i] : i \in 1..Len(LogFiles)}
\* The watched file the writer appends to where only one of them grows.
AppLog == LogFiles[1]
Alphabet == {"x", " ", "\n"}               \* a content byte, a blank, the terminator
StatusCodes == {200, 201, 401, 500}
\* What one requests.post call ends in: a response with a status code, or an
\* exception (timeout, connection error), in which case there is no response.
Outcomes == {[exc |-> FALSE, status |-> s] : s \in StatusCodes}
              \cup {[exc |-> TRUE, status |-> 0]}
NoResponse == [exc |-> FALSE, status |-> 0]
\* Config.validate: the fields it requires, and what a field can hold (absent
\* from the file, the empty string, a non-empty string).
RequiredFields == {"api_endpoint", "api_token"}
FieldValues == {"missing", "empty", "set"}
\* The settings validate does not look at: log_source_id, a string like the
\* two above, and the sleep lengths of the poll and the flush loop, numbers
\* that the file can give as positive or as negative (a missing one takes its
\* default, which is positive).
OptionalFields == {"log_source_id"}
IntervalFields == {"poll_interval", "flush_interval"}
IntervalValues == {"positive", "negative"}
Configs ==
    {c \in [RequiredFields \cup OptionalFields \cup IntervalFields ->
                FieldValues \cup IntervalValues] :
        /\ \A k \in RequiredFields \cup OptionalFields : c[k] \in FieldValues
        /\ \A k \in IntervalFields : c[k] \in IntervalValues}
\* The telemetry POSTs beside the log batches: _heartbeat_loop,
\* _send_server_metrics, DockerMonitor.send_container_metrics and
\* HttpMonitor.send_check_results.
Senders == {"heartbeat", "metrics", "docker", "http_checks"}
IdleSender == [pc |-> "idle", requests |-> <<>>]
\* What the agent finds at a watched path: a file it can open, no file, a file
\* it has no read permission for (os.access is false), a path whose open
\* raises although os.access is true.
AccessStates == {"ok", "missing", "unreadable", "open_fails"}
FlushPcs == {"flush_check", "flush_copy", "flush_clear", "flush_post",
             "flush_fallback", "flush_result"}

VARIABLES
    running,         \* self.running
    log_buffer,      \* self.log_buffer: sequence of records
    file_positions,  \* self.file_positions: path -> stored offset
    pc,              \* where each thread is
    logs_to_send,    \* _flush_logs local, per thread: the drained batch
    response,        \* _flush_logs local, per thread: outcome of the last POST
    poll_idx,        \* _monitor_files: index of the file of the for loop
    rd_pos,          \* _check_file_for_new_content: the stream position of f
    file,            \* environment: path -> content, a sequence of bytes
    written,         \* environment: bytes written so far (serial of the next byte)
    truncs,          \* environment: truncations so far
    appended,        \* history: every record handed to log_buffer.append, in order
    acked,           \* server: ids of the records of batches answered 201
    posts,           \* server: per thread, the requests of the flush in progress
    send_failures,   \* history: per record id, the failed sends it was part of
    config,          \* self.config: the settings as loaded from the file
    resume,          \* main thread: where the signal handler returns to
    signals,         \* environment: termination signals delivered so far
    restarts,        \* environment: times the agent process was started again
    at_shutdown,     \* history: file_positions when the process last exited
    offsets,         \* history: per record id, the offset its line started at
    tele,            \* per telemetry sender: where it is, the requests of its send
    access,          \* environment: path -> what the agent finds there
    faults,          \* environment: accessibility changes and failed reads so far
    dropped,         \* history: <<path, offset>> of the lines the inner except dropped
    skips,           \* history: <<path, why>> of the checks that ended without a
                     \* read because the path was absent or an error was caught
    boot,            \* history: the offsets start() stored, and the bytes
                     \* written by then
    rd_base,         \* history: the number of records appended before the
                     \* read in progress began (0 between two reads)
    aborted          \* history: ids of the records appended by a read that an
                     \* error then ended

vars == <<running, log_buffer, file_positions, pc, logs_to_send, response,
          poll_idx, rd_pos, file, written, truncs, appended, acked, posts,
          send_failures, config, resume, signals, restarts, at_shutdown,
          offsets, tele, access, faults, dropped, skips, boot, rd_base,
          aborted>>

\* ------------------------------------------------------------ pure helpers
Ids(batch) == {batch[i].id : i \in 1..Len(batch)}

IsSpace_NewlineOnly(b) == b[1] = "\n"
IsSpace(b) == b[1] \in {" ", "\n"}

\* str.strip(): leading and trailing whitespace removed.
RECURSIVE LStrip(_)
LStrip(s) == IF s # <<>> /\ IsSpace(Head(s)) THEN LStrip(Tail(s)) ELSE s
RECURSIVE RStrip(_)
RStrip(s) == IF s # <<>> /\ IsSpace(s[Len(s)])
             THEN RStrip(SubSeq(s, 1, Len(s) - 1)) ELSE s
Strip(s) == RStrip(LStrip(s))

\* `for line in f`: the line that starts after position p ends with the first
\* terminator after p, or at the end of the file when there is none (the
\* iterator also yields a last line that has no terminator).
LineEnd(c, p) ==
    IF \E i \in (p + 1)..Len(c) : c[i][1] = "\n"
    THEN CHOOSE i \in (p + 1)..Len(c) :
            /\ c[i][1] = "\n"
            /\ \A j \in (p + 1)..(i - 1) : c[j][1] # "\n"
    ELSE Len(c)

\* LogParser.parse_line plus the fields the agent attaches: the message is the
\* stripped line, the timestamp a datetime object, metadata.source_file the path.
ParseLine(line, path, n) ==
    [id |-> n, message |-> line, timestamp |-> "datetime", source_file |-> path]

\* The loop of _flush_logs that turns datetime timestamps into ISO strings.
IsoFormat(ts) == IF ts = "datetime" THEN "iso" ELSE ts
Normalise(batch) ==
    [i \in 1..Len(batch) |-> [batch[i] EXCEPT !.timestamp = IsoFormat(@)]]

\* `if response.status_code == 201`, reached only when no exception was raised.
Succeeded_Any2xx(o) == ~o.exc /\ o.status \in {200, 201}
Succeeded(o) == ~o.exc /\ o.status = 201

\* `if response.status_code == 401`
AuthFailed_AnyError(o) == ~o.exc /\ o.status >= 400
AuthFailed(o) == ~o.exc /\ o.status = 401

\* `if not self.config.get(field)`: a missing field (None) and the empty string
\* are both false.
Truthy(v) == v = "set"
\* Config.validate: every required field is there and not empty.
Valid_TokenOnly(c) == Truthy(c["api_token"])
Valid(c) == \A k \in RequiredFields : Truthy(c[k])

\* time.sleep(length) raises ValueError when the length is negative.
SleepRaises(length) == length = "negative"

\* Where _flush_logs returns to, per caller: the for loop of the tick, the test
\* of the flush loop, and for stop() the place the signal interrupted.
Return(t) == CASE t = "poll" -> "read"
               [] t = "flush" -> "loop_top"
               [] t = "main" -> resume

\* The main thread left start(), by its return or by sys.exit(1): the process
\* exits and takes the daemon threads with it.
Terminated == pc["main"] \in {"terminated", "aborted"}

\* os.path.exists(path), and whether open(path, 'r') succeeds.
Exists(f) == access[f] # "missing"
Opens(f) == access[f] = "ok"

\* -------------------------------------------------------------------- Init
Init ==
    /\ running = FALSE
    /\ log_buffer = <<>>
    /\ file_positions = [f \in {} |-> 0]
    /\ pc = [t \in Threads |-> IF t = "main" THEN "init" ELSE "unstarted"]
    /\ logs_to_send = [t \in Threads |-> <<>>]
    /\ response = [t \in Threads |-> NoResponse]
    /\ poll_idx = 1
    /\ rd_pos = 0
    /\ file = [f \in Files |-> <<>>]
    /\ written = 0
    /\ truncs = 0
    /\ appended = <<>>
    /\ acked = {}
    /\ posts = [t \in Threads |-> <<>>]
    /\ send_failures = <<>>
    /\ config \in Configs
    /\ resume = "init"
    /\ signals = 0
    /\ restarts = 0
    /\ at_shutdown = [f \in {} |-> 0]
    /\ offsets = <<>>
    /\ tele = [k \in Senders |-> IdleSender]
    /\ access = [f \in Files |-> "ok"]
    /\ faults = 0
    /\ dropped = {}
    /\ skips = {}
    /\ boot = [positions |-> [f \in {} |-> 0], written |-> 0]
    /\ rd_base = 0
    /\ aborted = {}

\* ------------------------------------------------------------- environment
\* Another process appends one byte to a watched file.
Write(f, ch) ==
    /\ written < MaxWrites
    /\ file' = [file EXCEPT ![f] = Append(@, <<ch, written + 1>>)]
    /\ written' = written + 1
    /\ UNCHANGED <<running, log_buffer, file_positions, pc, logs_to_send,
                   response, poll_idx, rd_pos, truncs, appended, acked, posts,
                   send_failures>>
    /\ UNCHANGED <<tele, config, resume, signals, restarts, at_shutdown, offsets>>
    /\ UNCHANGED <<access, faults, dropped, skips, boot, rd_base, aborted>>

\* Log rotation: the file is truncated to s bytes.
Truncate(f, s) ==
    /\ truncs < MaxTruncates
    /\ s < Len(file[f])
    /\ file' = [file EXCEPT ![f] = SubSeq(@, 1, s)]
    /\ truncs' = truncs + 1
    /\ UNCHANGED <<running, log_buffer, file_positions, pc, logs_to_send,
                   response, poll_idx, rd_pos, written, appended, acked, posts,
                   send_failures>>
    /\ UNCHANGED <<tele, config, resume, signals, restarts, at_shutdown, offsets>>
    /\ UNCHANGED <<access, faults, dropped, skips, boot, rd_base, aborted>>

\* The terminators in a content: the number of whole lines.
LinesIn(c) == Cardinality({i \in 1..Len(c) : c[i][1] = "\n"})

\* Another process appends a whole line, terminator included, in one write; max
\* bounds the lines of the file.
WriteLine(f, l, max) ==
    /\ LinesIn(file[f]) < max
    /\ file' = [file EXCEPT ![f] =
                  @ \o [i \in 1..Len(l) |-> <<l[i], written + i>>]]
    /\ written' = written + Len(l)
    /\ UNCHANGED <<running, log_buffer, file_positions, pc, logs_to_send,
                   response, poll_idx, rd_pos, truncs, appended, acked, posts,
                   send_failures>>
    /\ UNCHANGED <<tele, config, resume, signals, restarts, at_shutdown, offsets>>
    /\ UNCHANGED <<access, faults, dropped, skips, boot, rd_base, aborted>>

\* The file at a path is removed or appears (empty), or its permissions
\* change.
SetAccess(f, a) ==
    /\ faults < MaxFaults
    /\ a # access[f]
    /\ faults' = faults + 1
    /\ access' = [access EXCEPT ![f] = a]
    /\ file' = IF a = "missing" THEN [file EXCEPT ![f] = <<>>] ELSE file
    /\ UNCHANGED <<running, log_buffer, file_positions, pc, logs_to_send,
                   response, poll_idx, rd_pos, written, truncs, appended, acked,
                   posts, send_failures>>
    /\ UNCHANGED <<tele, config, resume, signals, restarts, at_shutdown, offsets,
                   dropped, skips, boot, rd_base, aborted>>

\* -------------------------------------------------------------- main thread
\* _initialize_file_positions: the end of a file that exists, is readable and
\* opens; 0 for a path that is missing, not readable or whose open raises.
InitialPosition_AlwaysEnd(f) == Len(file[f])
InitialPosition(f) == IF Opens(f) THEN Len(file[f]) ELSE 0

\* start(): `if not self.config.validate(): sys.exit(1)`.
Validate ==
    /\ pc["main"] = "init"
    /\ pc' = [pc EXCEPT !["main"] = IF Valid(config) THEN "validated"
                                                     ELSE "aborted"]
    /\ UNCHANGED <<running, log_buffer, file_positions, logs_to_send, response,
                   poll_idx, rd_pos, file, written, truncs, appended, acked,
                   posts, send_failures>>
    /\ UNCHANGED <<tele, config, resume, signals, restarts, at_shutdown, offsets>>
    /\ UNCHANGED <<access, faults, dropped, skips, boot, rd_base, aborted>>

\* start() after the validation: running is set, the offsets start at the end
\* of each file and the loop threads are started.
Start ==
    /\ pc["main"] = "validated"
    /\ running' = TRUE
    /\ file_positions' = [f \in Files |-> InitialPosition(f)]
    /\ pc' = [pc EXCEPT !["main"] = "main_loop", !["poll"] = "poll_top",
                        !["flush"] = "loop_top"]
    /\ UNCHANGED <<log_buffer, logs_to_send, response, poll_idx, rd_pos, file,
                   written, truncs, appended, acked, posts, send_failures>>
    /\ UNCHANGED <<tele, config, resume, signals, restarts, at_shutdown, offsets>>
    /\ UNCHANGED <<access, faults, dropped, skips, rd_base, aborted>>
    /\ boot' = [positions |-> [f \in Files |-> InitialPosition(f)],
                written |-> written]

\* Where the main thread can be when a termination signal is delivered: the
\* handlers are installed by __init__, so before start(), between the
\* validation and `self.running = True`, and in the main loop.
SignalPoints == {"init", "validated", "main_loop"}

\* A termination signal: _signal_handler runs stop() on the main thread, which
\* clears the flag and calls _flush_logs, and then returns to where the main
\* thread was.
SignalStop ==
    /\ pc["main"] \in SignalPoints
    /\ signals < MaxSignals
    /\ signals' = signals + 1
    /\ resume' = pc["main"]
    /\ running' = FALSE
    /\ pc' = [pc EXCEPT !["main"] = "flush_check"]
    /\ UNCHANGED <<log_buffer, file_positions, logs_to_send, response, poll_idx,
                   rd_pos, file, written, truncs, appended, acked, posts,
                   send_failures>>
    /\ UNCHANGED <<tele, config, restarts, at_shutdown, offsets>>
    /\ UNCHANGED <<access, faults, dropped, skips, boot, rd_base, aborted>>

\* `while self.running:` of the main loop: the main thread stays in it while
\* the flag is true.
StaysInMainLoop_Always(flag) == TRUE
StaysInMainLoop(flag) == flag

\* `while self.running: time.sleep(1)` sees the flag false: start() returns.
MainExit ==
    /\ pc["main"] = "main_loop"
    /\ ~StaysInMainLoop(running)
    /\ pc' = [pc EXCEPT !["main"] = "terminated"]
    /\ at_shutdown' = file_positions
    /\ UNCHANGED <<running, log_buffer, file_positions, logs_to_send, response,
                   poll_idx, rd_pos, file, written, truncs, appended, acked,
                   posts, send_failures>>
    /\ UNCHANGED <<tele, config, resume, signals, restarts, offsets>>
    /\ UNCHANGED <<access, faults, dropped, skips, boot, rd_base, aborted>>

\* The process has exited after a stop and is started again: a new
\* ObservabilityAgent is constructed (__init__), nothing of the old process but
\* the files is left.
Restart ==
    /\ pc["main"] = "terminated"
    /\ restarts < MaxRestarts
    /\ restarts' = restarts + 1
    /\ running' = FALSE
    /\ log_buffer' = <<>>
    /\ file_positions' = [f \in {} |-> 0]
    /\ pc' = [t \in Threads |-> IF t = "main" THEN "init" ELSE "unstarted"]
    /\ logs_to_send' = [t \in Threads |-> <<>>]
    /\ response' = [t \in Threads |-> NoResponse]
    /\ posts' = [t \in Threads |-> <<>>]
    /\ poll_idx' = 1
    /\ rd_pos' = 0
    /\ resume' = "init"
    /\ signals' = 0
    /\ tele' = [k \in Senders |-> IdleSender]
    /\ UNCHANGED <<file, written, truncs, appended, acked, send_failures,
                   config, at_shutdown, offsets>>
    /\ UNCHANGED <<access, faults, dropped, skips, boot, rd_base, aborted>>

\* ------------------------------------------------------------- _flush_logs
\* `if not self.log_buffer: return`, the first statement of _flush_logs.
NothingToSend_Never(buffer) == FALSE
NothingToSend(buffer) == buffer = <<>>

FlushCheck(t) ==
    /\ ~Terminated
    /\ pc[t] = "flush_check"
    /\ pc' = [pc EXCEPT ![t] = IF NothingToSend(log_buffer) THEN Return(t)
                                                    ELSE "flush_copy"]
    /\ UNCHANGED <<running, log_buffer, file_positions, logs_to_send, response,
                   poll_idx, rd_pos, file, written, truncs, appended, acked,
                   posts, send_failures>>
    /\ UNCHANGED <<tele, config, resume, signals, restarts, at_shutdown, offsets>>
    /\ UNCHANGED <<access, faults, dropped, skips, boot, rd_base, aborted>>

\* `logs_to_send = self.log_buffer.copy()`
FlushCopy(t) ==
    /\ ~Terminated
    /\ pc[t] = "flush_copy"
    /\ logs_to_send' = [logs_to_send EXCEPT ![t] = log_buffer]
    /\ pc' = [pc EXCEPT ![t] = "flush_clear"]
    /\ UNCHANGED <<running, log_buffer, file_positions, response, poll_idx,
                   rd_pos, file, written, truncs, appended, acked, posts,
                   send_failures>>
    /\ UNCHANGED <<tele, config, resume, signals, restarts, at_shutdown, offsets>>
    /\ UNCHANGED <<access, faults, dropped, skips, boot, rd_base, aborted>>

\* `self.log_buffer.clear()`, then the timestamps of the batch are normalised.
FlushClear(t) ==
    /\ ~Terminated
    /\ pc[t] = "flush_clear"
    /\ log_buffer' = <<>>
    /\ logs_to_send' = [logs_to_send EXCEPT ![t] = Normalise(@)]
    /\ pc' = [pc EXCEPT ![t] = "flush_post"]
    /\ UNCHANGED <<running, file_positions, response, poll_idx, rd_pos, file,
                   written, truncs, appended, acked, posts, send_failures>>
    /\ UNCHANGED <<tele, config, resume, signals, restarts, at_shutdown, offsets>>
    /\ UNCHANGED <<access, faults, dropped, skips, boot, rd_base, aborted>>

\* How a request carries the token: in the Authorization: Bearer header, or as
\* the api_key query parameter.
BearerHeader == [authorization |-> TRUE, api_key |-> FALSE]
QueryParameter == [authorization |-> FALSE, api_key |-> TRUE]

\* One requests.post of the batch with the given authentication; the server
\* has the batch when it answers 201.
Post(t, auth, o) ==
    /\ response' = [response EXCEPT ![t] = o]
    /\ posts' = [posts EXCEPT ![t] =
                    Append(@, [auth |-> auth, body |-> logs_to_send[t],
                               outcome |-> o])]
    /\ acked' = IF Succeeded(o) THEN acked \cup Ids(logs_to_send[t]) ELSE acked

\* The first POST, with the Authorization: Bearer header.
FlushPost(t) ==
    /\ ~Terminated
    /\ pc[t] = "flush_post"
    /\ \E o \in Outcomes :
          /\ Post(t, BearerHeader, o)
          /\ pc' = [pc EXCEPT ![t] = IF AuthFailed(o) THEN "flush_fallback"
                                                     ELSE "flush_result"]
    /\ UNCHANGED <<running, log_buffer, file_positions, logs_to_send, poll_idx,
                   rd_pos, file, written, truncs, appended, send_failures>>
    /\ UNCHANGED <<tele, config, resume, signals, restarts, at_shutdown, offsets>>
    /\ UNCHANGED <<access, faults, dropped, skips, boot, rd_base, aborted>>

\* After a 401: the second POST, with the token as the api_key query parameter
\* and no Authorization header.
FlushFallback(t) ==
    /\ ~Terminated
    /\ pc[t] = "flush_fallback"
    /\ \E o \in Outcomes : Post(t, QueryParameter, o)
    /\ pc' = [pc EXCEPT ![t] = "flush_result"]
    /\ UNCHANGED <<running, log_buffer, file_positions, logs_to_send, poll_idx,
                   rd_pos, file, written, truncs, appended, send_failures>>
    /\ UNCHANGED <<tele, config, resume, signals, restarts, at_shutdown, offsets>>
    /\ UNCHANGED <<access, faults, dropped, skips, boot, rd_base, aborted>>

\* What the buffer is after the send: untouched after a 201, and extended by
\* the drained batch after any other status or an exception.
AfterSend_AtHead(buffer, batch, o) ==
    IF Succeeded(o) THEN buffer ELSE batch \o buffer
AfterSend_DropOnException(buffer, batch, o) ==
    IF Succeeded(o) \/ o.exc THEN buffer ELSE buffer \o batch
AfterSend_DropOnServerError(buffer, batch, o) ==
    IF Succeeded(o) \/ (~o.exc /\ o.status >= 500) THEN buffer
    ELSE buffer \o batch
AfterSend(buffer, batch, o) ==
    IF Succeeded(o) THEN buffer ELSE buffer \o batch

\* `if response.status_code == 201: ... else: extend`, and the except branch.
FlushResult(t) ==
    /\ ~Terminated
    /\ pc[t] = "flush_result"
    /\ log_buffer' = AfterSend(log_buffer, logs_to_send[t], response[t])
    /\ send_failures' = IF Succeeded(response[t]) THEN send_failures
                     ELSE [i \in 1..Len(send_failures) |->
                             IF i \in Ids(logs_to_send[t])
                                /\ send_failures[i] < MaxFailures
                             THEN send_failures[i] + 1 ELSE send_failures[i]]
    /\ logs_to_send' = [logs_to_send EXCEPT ![t] = <<>>]
    /\ response' = [response EXCEPT ![t] = NoResponse]
    /\ posts' = [posts EXCEPT ![t] = <<>>]
    /\ pc' = [pc EXCEPT ![t] = Return(t)]
    /\ UNCHANGED <<running, file_positions, poll_idx, rd_pos, file, written,
                   truncs, appended, acked>>
    /\ UNCHANGED <<tele, config, resume, signals, restarts, at_shutdown, offsets>>
    /\ UNCHANGED <<access, faults, dropped, skips, boot, rd_base, aborted>>

Flush(t) ==
    \/ FlushCheck(t)
    \/ FlushCopy(t)
    \/ FlushClear(t)
    \/ FlushPost(t)
    \/ FlushFallback(t)
    \/ FlushResult(t)

\* -------------------------------------------------------------- flush thread
\* `while self.running:` of _flush_loop
FlushLoopTop ==
    /\ ~Terminated
    /\ pc["flush"] = "loop_top"
    /\ pc' = [pc EXCEPT !["flush"] = IF running THEN "sleep" ELSE "done"]
    /\ UNCHANGED <<running, log_buffer, file_positions, logs_to_send, response,
                   poll_idx, rd_pos, file, written, truncs, appended, acked,
                   posts, send_failures>>
    /\ UNCHANGED <<tele, config, resume, signals, restarts, at_shutdown, offsets>>
    /\ UNCHANGED <<access, faults, dropped, skips, boot, rd_base, aborted>>

\* The sleep of flush_interval ends and _flush_logs is called.
FlushWake ==
    /\ ~Terminated
    /\ pc["flush"] = "sleep"
    /\ ~SleepRaises(config["flush_interval"])
    /\ pc' = [pc EXCEPT !["flush"] = "flush_check"]
    /\ UNCHANGED <<running, log_buffer, file_positions, logs_to_send, response,
                   poll_idx, rd_pos, file, written, truncs, appended, acked,
                   posts, send_failures>>
    /\ UNCHANGED <<tele, config, resume, signals, restarts, at_shutdown, offsets>>
    /\ UNCHANGED <<access, faults, dropped, skips, boot, rd_base, aborted>>

\* The sleep of flush_interval raises: _flush_loop has no try, the exception
\* leaves the function and the thread ends.
FlushSleepRaises ==
    /\ ~Terminated
    /\ pc["flush"] = "sleep"
    /\ SleepRaises(config["flush_interval"])
    /\ pc' = [pc EXCEPT !["flush"] = "crashed"]
    /\ UNCHANGED <<running, log_buffer, file_positions, logs_to_send, response,
                   poll_idx, rd_pos, file, written, truncs, appended, acked,
                   posts, send_failures>>
    /\ UNCHANGED <<tele, config, resume, signals, restarts, at_shutdown, offsets>>
    /\ UNCHANGED <<access, faults, dropped, skips, boot, rd_base, aborted>>

\* --------------------------------------------------------------- poll thread
\* The pc of the poll thread after the file of index i is done: the next file
\* of the for loop, or the sleep of poll_interval and then the loop test; when
\* that sleep raises, the except branch of the loop.
AfterFile(i) ==
    IF i < Len(LogFiles) THEN "check"
    ELSE IF SleepRaises(config["poll_interval"]) THEN "backoff" ELSE "poll_top"
NextIdx(i) == IF i < Len(LogFiles) THEN i + 1 ELSE 1

\* `while self.running:` of _monitor_files (the sleep precedes the test).
PollTop ==
    /\ ~Terminated
    /\ pc["poll"] = "poll_top"
    /\ pc' = [pc EXCEPT !["poll"] = IF running THEN "check" ELSE "done"]
    /\ poll_idx' = 1
    /\ UNCHANGED <<running, log_buffer, file_positions, logs_to_send, response,
                   rd_pos, file, written, truncs, appended, acked, posts,
                   send_failures>>
    /\ UNCHANGED <<tele, config, resume, signals, restarts, at_shutdown, offsets>>
    /\ UNCHANGED <<access, faults, dropped, skips, boot, rd_base, aborted>>

\* The pc of the poll thread after the check of the file of index i raised:
\* the outer except of _check_file_for_new_content logs the error and the
\* function returns as it does without one.
AfterFileError_Propagates(i) == "backoff"
AfterFileError(i) == AfterFile(i)

\* `except Exception` of _monitor_files: the error is logged, the loop backs
\* off for five seconds and goes on to its test.
PollBackoff ==
    /\ ~Terminated
    /\ pc["poll"] = "backoff"
    /\ pc' = [pc EXCEPT !["poll"] = "poll_top"]
    /\ UNCHANGED <<running, log_buffer, file_positions, logs_to_send, response,
                   poll_idx, rd_pos, file, written, truncs, appended, acked,
                   posts, send_failures>>
    /\ UNCHANGED <<tele, config, resume, signals, restarts, at_shutdown, offsets>>
    /\ UNCHANGED <<access, faults, dropped, skips, boot, rd_base, aborted>>

\* The position reading starts from: 0 when the file is shorter than the stored
\* offset (rotation), else the stored offset.
StartPosition_FromStart(size, stored) == 0
StartPosition(size, stored) == IF size < stored THEN 0 ELSE stored

\* _check_file_for_new_content up to the seek: the path is skipped when it
\* does not exist, when the size shows nothing new, and when open raises (the
\* outer except logs the error and the function returns).
CheckFile ==
    /\ ~Terminated
    /\ pc["poll"] = "check"
    /\ LET f == LogFiles[poll_idx]
           current_size == Len(file[f])
           last_position == StartPosition(current_size, file_positions[f])
       IN IF ~Exists(f) \/ current_size <= last_position
          THEN /\ pc' = [pc EXCEPT !["poll"] = AfterFile(poll_idx)]
               /\ poll_idx' = NextIdx(poll_idx)
               /\ skips' = IF Exists(f) THEN skips
                            ELSE skips \cup {<<f, "absent">>}
               /\ UNCHANGED <<rd_pos, rd_base>>
          ELSE IF ~Opens(f)
          THEN /\ pc' = [pc EXCEPT !["poll"] = AfterFileError(poll_idx)]
               /\ poll_idx' = NextIdx(poll_idx)
               /\ skips' = skips \cup {<<f, "error">>}
               /\ UNCHANGED <<rd_pos, rd_base>>
          ELSE /\ pc' = [pc EXCEPT !["poll"] = "read"]
               /\ rd_pos' = last_position
               /\ rd_base' = Len(appended)
               /\ UNCHANGED <<poll_idx, skips>>
    /\ UNCHANGED <<running, log_buffer, file_positions, logs_to_send, response,
                   file, written, truncs, appended, acked, posts, send_failures>>
    /\ UNCHANGED <<tele, config, resume, signals, restarts, at_shutdown, offsets>>
    /\ UNCHANGED <<access, faults, dropped, boot, aborted>>

\* `self.log_buffer.append(parsed_log)`: the record goes to the tail.
Admit_AtHead(buffer, r) == <<r>> \o buffer
Admit(buffer, r) == Append(buffer, r)

\* One iteration of `for line in f`: the line is stripped, a blank one is
\* skipped, any other is parsed and appended to the buffer.
ReadLine ==
    /\ ~Terminated
    /\ pc["poll"] = "read"
    /\ LET f == LogFiles[poll_idx]
           c == file[f]
           e == LineEnd(c, rd_pos)
           line == Strip(SubSeq(c, rd_pos + 1, e))
       IN /\ rd_pos < Len(c)
          /\ rd_pos' = e
          /\ IF line = <<>>
             THEN UNCHANGED <<log_buffer, appended, send_failures, pc, offsets>>
             ELSE LET r == ParseLine(line, f, Len(appended) + 1)
                  IN /\ log_buffer' = Admit(log_buffer, r)
                     /\ appended' = Append(appended, r)
                     /\ send_failures' = Append(send_failures, 0)
                     /\ offsets' = Append(offsets, rd_pos)
                     /\ pc' = [pc EXCEPT !["poll"] = "batch_check"]
    /\ UNCHANGED <<running, file_positions, logs_to_send, response, poll_idx,
                   file, written, truncs, acked, posts>>
    /\ UNCHANGED <<tele, config, resume, signals, restarts, at_shutdown>>
    /\ UNCHANGED <<access, faults, dropped, skips, boot, rd_base, aborted>>

\* The stream position after an iteration that ended in the inner except: the
\* iterator has consumed the line, the next iteration takes the next one.
AfterDroppedLine_Retry(c, p) == p
AfterDroppedLine(c, p) == LineEnd(c, p)

\* One iteration of `for line in f` in which parse_line or the construction of
\* the record raises: the inner except logs it, nothing is appended and the
\* loop goes on with the next line.
ReadLineRaises ==
    /\ ~Terminated
    /\ pc["poll"] = "read"
    /\ Cardinality(dropped) < MaxDropped
    /\ LET f == LogFiles[poll_idx]
           c == file[f]
           e == LineEnd(c, rd_pos)
       IN /\ rd_pos < Len(c)
          /\ Strip(SubSeq(c, rd_pos + 1, e)) # <<>>
          /\ rd_pos' = AfterDroppedLine(c, rd_pos)
          /\ dropped' = dropped \cup {<<f, rd_pos>>}
    /\ UNCHANGED <<running, log_buffer, file_positions, pc, logs_to_send,
                   response, poll_idx, file, written, truncs, appended, acked,
                   posts, send_failures>>
    /\ UNCHANGED <<tele, config, resume, signals, restarts, at_shutdown, offsets,
                   access, faults, skips, boot, rd_base, aborted>>

\* The stored offset after the read of a file ended in the outer except with
\* the stream at position pos: the assignment after the loop was not reached.
OffsetAfterError_StreamPosition(stored, pos) == pos
OffsetAfterError(stored, pos) == stored

\* The read raises in the middle of `for line in f` (an I/O or a decoding
\* error): the outer except logs it and the function returns, the stored
\* offset is not updated.
ReadError ==
    /\ ~Terminated
    /\ pc["poll"] = "read"
    /\ faults < MaxFaults
    /\ faults' = faults + 1
    /\ skips' = skips \cup {<<LogFiles[poll_idx], "error">>}
    /\ aborted' = aborted \cup (rd_base + 1 .. Len(appended))
    /\ file_positions' =
          [file_positions EXCEPT ![LogFiles[poll_idx]] =
              OffsetAfterError(@, rd_pos)]
    /\ rd_pos' = 0
    /\ rd_base' = 0
    /\ pc' = [pc EXCEPT !["poll"] = AfterFileError(poll_idx)]
    /\ poll_idx' = NextIdx(poll_idx)
    /\ UNCHANGED <<running, log_buffer, logs_to_send, response, file, written,
                   truncs, appended, acked, posts, send_failures>>
    /\ UNCHANGED <<tele, config, resume, signals, restarts, at_shutdown, offsets,
                   access, dropped, boot>>

\* `if len(self.log_buffer) >= batch_size: self._flush_logs()`, the statement
\* after the append: the length is the one the buffer has by then.
BufferFull_AtBatchSize(buffer) == Len(buffer) = BatchSize
BufferFull_OverBatchSize(buffer) == Len(buffer) > BatchSize
BufferFull(buffer) == Len(buffer) >= BatchSize

BatchCheck ==
    /\ ~Terminated
    /\ pc["poll"] = "batch_check"
    /\ pc' = [pc EXCEPT !["poll"] = IF BufferFull(log_buffer)
                                    THEN "flush_check" ELSE "read"]
    /\ UNCHANGED <<running, log_buffer, file_positions, logs_to_send, response,
                   poll_idx, rd_pos, file, written, truncs, appended, acked,
                   posts, send_failures>>
    /\ UNCHANGED <<tele, config, resume, signals, restarts, at_shutdown, offsets>>
    /\ UNCHANGED <<access, faults, dropped, skips, boot, rd_base, aborted>>

\* The iterator is exhausted: `self.file_positions[file_path] = f.tell()`.
ReadEOF ==
    /\ ~Terminated
    /\ pc["poll"] = "read"
    /\ LET f == LogFiles[poll_idx]
       IN /\ rd_pos >= Len(file[f])
          /\ file_positions' = [file_positions EXCEPT ![f] = rd_pos]
    /\ rd_pos' = 0
    /\ rd_base' = 0
    /\ pc' = [pc EXCEPT !["poll"] = AfterFile(poll_idx)]
    /\ poll_idx' = NextIdx(poll_idx)
    /\ UNCHANGED <<running, log_buffer, logs_to_send, response, file,
                   written, truncs, appended, acked, posts, send_failures>>
    /\ UNCHANGED <<tele, config, resume, signals, restarts, at_shutdown, offsets>>
    /\ UNCHANGED <<access, faults, dropped, skips, boot, aborted>>

\* --------------------------------------------------------- telemetry senders
\* The senders whose code makes a second POST after a 401: only the heartbeat
\* has `if response.status_code == 401:`; the other three go from the first
\* response straight to the status test.
FallsBack(k) == k = "heartbeat"

\* The statuses a sender takes as success.
SuccessCodes(k) == CASE k = "heartbeat" -> {200}
                     [] k = "metrics" -> {201}
                     [] k = "docker" -> {200, 201}
                     [] k = "http_checks" -> {200, 201}

\* _heartbeat_loop starts with `if not log_source_id: return`: the loop is
\* entered only with a log_source_id in the configuration.  The other senders
\* have no such test.
HeartbeatEnabled_Always(c) == TRUE
HeartbeatEnabled(c) == Truthy(c["log_source_id"])
LoopRuns(k) == k = "heartbeat" => HeartbeatEnabled(config)

\* The heartbeat thread, started by start(), returns before its loop.
HeartbeatReturns ==
    /\ ~Terminated
    /\ pc["poll"] # "unstarted"
    /\ tele["heartbeat"].pc = "idle"
    /\ ~LoopRuns("heartbeat")
    /\ tele' = [tele EXCEPT !["heartbeat"] = [pc |-> "returned", requests |-> <<>>]]
    /\ UNCHANGED <<running, log_buffer, file_positions, pc, logs_to_send,
                   response, poll_idx, rd_pos, file, written, truncs, appended,
                   acked, posts, send_failures, config, resume, signals,
                   restarts, at_shutdown, offsets>>
    /\ UNCHANGED <<access, faults, dropped, skips, boot, rd_base, aborted>>

\* The first POST of a send, with the Authorization: Bearer header.
SendFirst(k) ==
    /\ ~Terminated
    /\ running
    /\ LoopRuns(k)
    /\ tele[k].pc = "idle"
    /\ \E o \in Outcomes :
          tele' = [tele EXCEPT ![k] =
                     [pc |-> IF FallsBack(k) /\ AuthFailed(o) THEN "fallback"
                                                              ELSE "answered",
                      requests |-> <<[auth |-> BearerHeader, outcome |-> o]>>]]
    /\ UNCHANGED <<running, log_buffer, file_positions, pc, logs_to_send,
                   response, poll_idx, rd_pos, file, written, truncs, appended,
                   acked, posts, send_failures, config, resume, signals,
                   restarts, at_shutdown, offsets>>
    /\ UNCHANGED <<access, faults, dropped, skips, boot, rd_base, aborted>>

\* The second POST, with the token as the api_key query parameter.
SendFallback(k) ==
    /\ ~Terminated
    /\ tele[k].pc = "fallback"
    /\ \E o \in Outcomes :
          tele' = [tele EXCEPT ![k] =
                     [pc |-> "answered",
                      requests |-> Append(@.requests,
                                     [auth |-> QueryParameter, outcome |-> o])]]
    /\ UNCHANGED <<running, log_buffer, file_positions, pc, logs_to_send,
                   response, poll_idx, rd_pos, file, written, truncs, appended,
                   acked, posts, send_failures, config, resume, signals,
                   restarts, at_shutdown, offsets>>
    /\ UNCHANGED <<access, faults, dropped, skips, boot, rd_base, aborted>>

\* The status test and the log line: the send is over, whatever the outcome
\* (nothing is kept for a retry), and the loop sleeps until the next one.
SendOver(k) ==
    /\ ~Terminated
    /\ tele[k].pc = "answered"
    /\ tele' = [tele EXCEPT ![k] = IdleSender]
    /\ UNCHANGED <<running, log_buffer, file_positions, pc, logs_to_send,
                   response, poll_idx, rd_pos, file, written, truncs, appended,
                   acked, posts, send_failures, config, resume, signals,
                   restarts, at_shutdown, offsets>>
    /\ UNCHANGED <<access, faults, dropped, skips, boot, rd_base, aborted>>

\* ------------------------------------------------------------ specifications
\* The steps the main thread takes by itself, and with the signal it may get.
MainSteps == Validate \/ Start \/ MainExit \/ Flush("main")
MainThread == MainSteps \/ SignalStop

FlushThread == FlushLoopTop \/ FlushWake \/ Flush("flush")

PollThread ==
    PollTop \/ CheckFile \/ ReadLine \/ BatchCheck \/ ReadEOF \/ Flush("poll")

\* The optional settings of a default deployment: no log_source_id, and sleep
\* lengths that are positive numbers.
NumericIntervals == \A k \in IntervalFields : config[k] = "positive"
DefaultOptions == config["log_source_id"] = "missing" /\ NumericIntervals
\* The agent constructed from a file with the default options, from one with
\* numeric sleep lengths, and from one without log_source_id.
DefaultInit == Init /\ DefaultOptions
NumericInit == Init /\ NumericIntervals
NoSourceInit == Init /\ config["log_source_id"] = "missing"

\* The lines the writer appends as a whole: a content line, an empty line, a
\* line of blanks only, a content line with blanks around it.
LineShapes == {<<"x", "\n">>, <<"\n">>, <<" ", "\n">>, <<" ", "x", "\n">>}

\* The whole agent, every thread interleaved with every other, tailing a file
\* that grows by whole content lines.
Next ==
    \/ MainThread
    \/ FlushThread
    \/ PollThread
    \/ WriteLine(AppLog, <<"x", "\n">>, MaxLines)

Spec == DefaultInit /\ [][Next]_vars

\* The whole agent with every call of _flush_logs run without another agent
\* thread stepping before it returns: the calls follow one another.
InFlush(t) == pc[t] \in FlushPcs
Alone(t) == \A u \in Threads \ {t} : ~InFlush(u)

SeqNext ==
    \/ MainThread /\ Alone("main")
    \/ FlushThread /\ Alone("flush")
    \/ PollThread /\ Alone("poll")
    \/ WriteLine(AppLog, <<"x", "\n">>, MaxLines)

SeqSpec == DefaultInit /\ [][SeqNext]_vars

\* The same with the scheduling the threads get: a thread that can take a step
\* eventually takes one (a POST ends in a response, an error or a timeout, a
\* sleep ends).  No fairness is put on the signal.
StopSpec ==
    /\ SeqSpec
    /\ WF_vars(MainSteps /\ Alone("main"))
    /\ WF_vars(FlushThread /\ Alone("flush"))
    /\ WF_vars(PollThread /\ Alone("poll"))

\* The two loop threads of a running agent, interleaved at every step; no
\* termination signal comes.
LoopNext ==
    \/ Validate
    \/ Start
    \/ FlushThread
    \/ PollThread
    \/ WriteLine(AppLog, <<"x", "\n">>, MaxLines)

LoopSpec == DefaultInit /\ [][LoopNext]_vars

\* The two loop threads of a running agent under every setting of the sleep
\* lengths; no termination signal comes.
SleepNext ==
    \/ LoopNext
    \/ FlushSleepRaises
    \/ PollBackoff

SleepSpec == NoSourceInit /\ [][SleepNext]_vars

\* The same with the scheduling the threads get: each loop thread that can
\* take a step eventually takes one, and a thread that POSTs again and again
\* is answered 201 again and again.
LiveSpec ==
    /\ LoopSpec
    /\ WF_vars(FlushThread)
    /\ WF_vars(PollThread)
    /\ \A t \in {"poll", "flush"} :
          SF_vars(FlushPost(t) /\ Succeeded(response'[t]))

\* The tailer alone (the flush thread is never scheduled and no signal comes),
\* over a file written byte by byte and truncated by log rotation.
TailNext ==
    \/ Validate
    \/ Start
    \/ PollThread
    \/ \E ch \in Alphabet : Write(AppLog, ch)
    \/ \E s \in 0..MaxWrites : Truncate(AppLog, s)

TailSpec == DefaultInit /\ [][TailNext]_vars

\* The tailer alone over a file that only grows by whole lines once the agent
\* watches it.
Watching == DOMAIN file_positions = Files

GrowNext ==
    \/ Validate
    \/ Start
    \/ PollThread
    \/ \E l \in LineShapes : Watching /\ WriteLine(AppLog, l, MaxGrowLines)

GrowSpec == DefaultInit /\ [][GrowNext]_vars

\* The same with lines whose record construction raises.
DropNext ==
    \/ GrowNext
    \/ ReadLineRaises

DropSpec == DefaultInit /\ [][DropNext]_vars

\* The flush loop as the only caller of _flush_logs while the tailer appends:
\* the behaviours in which the tailer has not found the buffer at batch size.
ReadmitNext ==
    \/ Validate
    \/ Start
    \/ FlushThread
    \/ PollTop
    \/ CheckFile
    \/ ReadLine
    \/ BatchCheck /\ ~BufferFull(log_buffer)
    \/ ReadEOF
    \/ WriteLine(AppLog, <<"x", "\n">>, MaxLines)

ReadmitSpec == DefaultInit /\ [][ReadmitNext]_vars

\* _flush_logs when the server answers the first POST with 201.
FlushAnswered201(t) ==
    \/ FlushCheck(t)
    \/ FlushCopy(t)
    \/ FlushClear(t)
    \/ FlushPost(t) /\ Succeeded(response'[t])
    \/ FlushResult(t)

\* The two loop threads interleaved at every step, with a server that accepts
\* every batch, over a file that grows by whole content lines.
OrderNext ==
    \/ Validate
    \/ Start
    \/ FlushLoopTop
    \/ FlushWake
    \/ FlushAnswered201("flush")
    \/ PollTop
    \/ CheckFile
    \/ ReadLine
    \/ BatchCheck
    \/ ReadEOF
    \/ FlushAnswered201("poll")
    \/ Watching /\ WriteLine(AppLog, <<"x", "\n">>, MaxGrowLines)

OrderSpec == DefaultInit /\ [][OrderNext]_vars

\* The telemetry senders of a running agent, each in its own loop thread.
TeleNext ==
    \/ Validate
    \/ Start
    \/ \E k \in Senders : SendFirst(k)
    \/ \E k \in Senders : SendFallback(k)
    \/ \E k \in Senders : SendOver(k)
    \/ HeartbeatReturns

TeleSpec == NumericInit /\ [][TeleNext]_vars

\* The agent stopped by a signal and started again, over a file that grows by
\* whole content lines while the agent watches it and while it is down (the
\* flush thread is never scheduled).
RestartNext ==
    \/ MainThread
    \/ Restart
    \/ PollThread
    \/ /\ Watching \/ pc["main"] = "terminated"
       /\ WriteLine(AppLog, <<"x", "\n">>, MaxLines)

RestartSpec == DefaultInit /\ [][RestartNext]_vars

\* The tailer alone (the flush thread is never scheduled and no signal comes)
\* over two watched files that grow by whole content lines and whose
\* accessibility changes, before the agent starts and while it runs; a read
\* can fail half way, the sleep of the poll loop can raise, and the server
\* accepts every batch.  The writer stops once MaxWrites bytes were written.
AccessInit ==
    /\ Init
    /\ config["log_source_id"] = "missing"
    /\ config["flush_interval"] = "positive"

AccessNext ==
    \/ Validate
    \/ Start
    \/ PollTop
    \/ PollBackoff
    \/ CheckFile
    \/ ReadLine
    \/ ReadError
    \/ BatchCheck
    \/ ReadEOF
    \/ FlushAnswered201("poll")
    \/ \E f \in Files, a \in AccessStates : SetAccess(f, a)
    \/ \E f \in Files :
          /\ Exists(f)
          /\ written < MaxWrites
          /\ WriteLine(f, <<"x", "\n">>, MaxLines)

AccessSpec == AccessInit /\ [][AccessNext]_vars

\* ------------------------------------------------------------------- claims
\* A thread has copied the buffer out and has not yet returned from _flush_logs.
Drained(t) == pc[t] \in {"flush_clear", "flush_post", "flush_fallback",
                         "flush_result"}
\* A thread has copied the buffer out and cleared it: the batch is its own.
Holding(t) == pc[t] \in {"flush_post", "flush_fallback", "flush_result"}
\* How often record i is in the live buffer, and how many threads hold it.
InBuffer(i) == Cardinality({k \in 1..Len(log_buffer) : log_buffer[k].id = i})
HeldBy(i) ==
    Cardinality({t \in Threads : Holding(t) /\ i \in Ids(logs_to_send[t])})
Delivered(i) == IF i \in acked /\ HeldBy(i) = 0 THEN 1 ELSE 0
NoFlushHolds == \A t \in Threads : ~Holding(t)
ThePath == LogFiles[poll_idx]

\* C1: every record appended to the buffer is, at every moment and under every
\* interleaving of the append with another thread's copy-out and clear, in
\* exactly one place: the live buffer, one drained batch, or delivered.
C1_NoRecordLostOrDuplicated ==
    \A i \in 1..Len(appended) : InBuffer(i) + HeldBy(i) + Delivered(i) = 1

\* C2: two callers of _flush_logs never hold drained batches that share a
\* record (neither has re-admitted its batch yet, so nothing was re-admitted
\* in between).
C2_DrainedBatchesDisjoint ==
    \A t, u \in Threads :
        (t # u /\ Drained(t) /\ Drained(u))
            => Ids(logs_to_send[t]) \cap Ids(logs_to_send[u]) = {}

\* C3: with the calls of _flush_logs following one another, every record of a
\* batch whose send failed is back in the buffer once the flush has returned,
\* and a flush whose send succeeds has sent every record that failed before.
C3_FailedBatchIsRetried ==
    /\ NoFlushHolds =>
          \A i \in 1..Len(appended) :
              (send_failures[i] > 0 /\ i \notin acked) => InBuffer(i) = 1
    /\ \A t \in Threads :
          (pc[t] = "flush_result" /\ Succeeded(response[t])) =>
              \A i \in 1..Len(appended) :
                  send_failures[i] > 0 =>
                      (i \in acked /\ (i \in Ids(logs_to_send[t])
                                       \/ InBuffer(i) = 0))

\* C3 witness: a send succeeds and its batch carries a record that an earlier
\* failed send had re-admitted.
C3_Witness ==
    \E t \in Threads :
        /\ pc[t] = "flush_result"
        /\ Succeeded(response[t])
        /\ \E i \in Ids(logs_to_send[t]) : send_failures[i] > 0

\* C4: a record is appended only for a line whose terminator is in the file:
\* the byte that ends the line just consumed is the terminator.
C4_PartialLineNotForwarded ==
    [][(pc["poll"] = "read" /\ Len(appended') = Len(appended) + 1)
          => file[ThePath][rd_pos'][1] = "\n"]_vars

\* C5: a tick that finds the file shorter than the stored offset, whatever its
\* size (0 included), resets the cursor: it re-reads the file from position 0,
\* or the stored offset is 0 when it returns.
C5_RotationResetsCursor ==
    [][(/\ pc["poll"] = "check"
        /\ pc'["poll"] # "check" \/ poll_idx' # poll_idx
        /\ Len(file[ThePath]) < file_positions[ThePath])
          => \/ pc'["poll"] = "read" /\ rd_pos' = 0
             \/ file_positions'[ThePath] = 0]_vars

\* The whole lines of a content, as <<position before the line, position of
\* its terminator>>.
CompleteLines(c) ==
    {se \in (0..Len(c)) \X (1..Len(c)) :
        /\ se[1] < se[2]
        /\ c[se[2]][1] = "\n"
        /\ se[1] = 0 \/ c[se[1]][1] = "\n"
        /\ \A j \in (se[1] + 1)..(se[2] - 1) : c[j][1] # "\n"}
\* The records appended for the line se of c (bytes are unique, so a message
\* names its line).
RecordsOfLine(c, se) ==
    {i \in 1..Len(appended) :
        appended[i].message = Strip(SubSeq(c, se[1] + 1, se[2]))}
IsBlankLine(c, se) == Strip(SubSeq(c, se[1] + 1, se[2])) = <<>>
\* The poll thread finishes its check of file f in this step.
TickEnds(f) ==
    /\ pc["poll"] \in {"check", "read"}
    /\ ThePath = f
    /\ pc'["poll"] = "poll_top" \/ poll_idx' # poll_idx
\* The stored offset never decreases and is the file size when a tick ends.
OffsetFollowsSize ==
    \A f \in DOMAIN file_positions :
        /\ file_positions'[f] >= file_positions[f]
        /\ TickEnds(f) => file_positions'[f] = Len(file'[f])

\* C6 as stated: for a file that only grows by whole lines, the offset after a
\* tick is the file size, it never decreases, and every line below the stored
\* offset has exactly one record.
C6_EveryLineExactlyOnce ==
    /\ [](\A f \in DOMAIN file_positions :
            \A se \in CompleteLines(file[f]) :
                se[2] <= file_positions[f]
                    => Cardinality(RecordsOfLine(file[f], se)) = 1)
    /\ [][OffsetFollowsSize]_vars

\* C6 amended: the same, with exactly one record for every non-blank line below
\* the stored offset, none for a blank line, and never two for any line.
C6_EveryNonBlankLineExactlyOnce ==
    /\ [](\A f \in DOMAIN file_positions :
            \A se \in CompleteLines(file[f]) :
                LET n == Cardinality(RecordsOfLine(file[f], se))
                IN /\ n <= 1
                   /\ se[2] <= file_positions[f]
                         => n = IF IsBlankLine(file[f], se) THEN 0 ELSE 1)
    /\ [][OffsetFollowsSize]_vars

\* C6 witness: after several lines, a blank one among them, a tick has ended
\* with the offset at the end of the file and a record for each content line.
C6_Witness ==
    /\ pc["poll"] = "poll_top"
    /\ \E f \in DOMAIN file_positions :
          /\ LinesIn(file[f]) >= 3
          /\ file_positions[f] = Len(file[f])
          /\ \E se \in CompleteLines(file[f]) : IsBlankLine(file[f], se)
    /\ Len(appended) >= 2

\* No POST has ended in anything but a 201 so far.
NoSendFailed ==
    /\ \A i \in 1..Len(appended) : send_failures[i] = 0
    /\ \A t \in Threads :
          \A k \in 1..Len(posts[t]) : Succeeded(posts[t][k].outcome)

\* C7: when the agent has terminated after a signal, every record appended
\* before that is in a batch the server acknowledged (stated for the runs in
\* which no send failed: a fortiori for all runs).
C7_CleanStopDeliversAll ==
    (Terminated /\ NoSendFailed) => \A i \in 1..Len(appended) : i \in acked

\* C8: with the calls of _flush_logs following one another, a record is
\* delivered, held by a flush in progress or in the buffer; and while no send
\* has succeeded, the buffer holds every record appended so far, once each.
C8_NoDropPath ==
    /\ \A i \in 1..Len(appended) :
          i \in acked \/ InBuffer(i) >= 1 \/ HeldBy(i) >= 1
    /\ (acked = {} /\ NoFlushHolds) =>
          /\ Len(log_buffer) = Len(appended)
          /\ Ids(log_buffer) = 1..Len(appended)

\* C8 witness: a record whose batch failed MaxFailures times is still in the
\* buffer, nothing having been delivered.
C8_Witness ==
    /\ acked = {}
    /\ NoFlushHolds
    /\ \E i \in 1..Len(appended) :
          send_failures[i] >= MaxFailures /\ InBuffer(i) = 1

\* C9: the fallback POST is made exactly when the first POST was answered 401;
\* it carries the same batch, the token as api_key and no Authorization
\* header; and the response the flush decides on is the last one.
C9_OneFallbackOn401 ==
    \A t \in Threads :
        /\ pc[t] = "flush_fallback" =>
              /\ Len(posts[t]) = 1
              /\ ~posts[t][1].outcome.exc
              /\ posts[t][1].outcome.status = 401
        /\ pc[t] = "flush_result" =>
              LET p == posts[t]
              IN /\ Len(p) \in {1, 2}
                 /\ p[1].auth = [authorization |-> TRUE, api_key |-> FALSE]
                 /\ p[1].body = logs_to_send[t]
                 /\ Len(p) = 2 <=> (~p[1].outcome.exc
                                     /\ p[1].outcome.status = 401)
                 /\ Len(p) = 2 =>
                       /\ p[2].auth = [authorization |-> FALSE,
                                       api_key |-> TRUE]
                       /\ p[2].body = p[1].body
                 /\ response[t] = p[Len(p)].outcome

\* C9 witness: a flush whose first POST got 401 and whose fallback got 201.
C9_Witness ==
    \E t \in Threads :
        /\ pc[t] = "flush_result"
        /\ Len(posts[t]) = 2
        /\ posts[t][2].outcome = [exc |-> FALSE, status |-> 201]

\* C10: when _flush_logs returns after its send, the buffer is untouched if the
\* last outcome was status 201 and is extended by the whole drained batch after
\* every other outcome.
C10_SuccessIsExactly201 ==
    [][\A t \in Threads :
          (pc[t] = "flush_result" /\ pc'[t] # "flush_result") =>
              LET final == posts[t][Len(posts[t])].outcome
              IN IF ~final.exc /\ final.status = 201
                 THEN log_buffer' = log_buffer
                 ELSE log_buffer' = log_buffer \o logs_to_send[t]]_vars

\* C10 witness: a flush whose last response is a 200 holds a drained batch that
\* it is about to hand back.
C10_Witness ==
    \E t \in Threads :
        /\ pc[t] = "flush_result"
        /\ response[t] = [exc |-> FALSE, status |-> 200]
        /\ logs_to_send[t] # <<>>

Chars(line) == [i \in 1..Len(line) |-> line[i][1]]

\* C12: a line submitted twice with the same file path, offset and content
\* yields one record: no two appended records agree on all three.
C12_SameTupleForwardedOnce ==
    \A i, j \in 1..Len(appended) :
        (/\ i < j
         /\ appended[i].source_file = appended[j].source_file
         /\ offsets[i] = offsets[j]
         /\ Chars(appended[i].message) = Chars(appended[j].message)) => FALSE

\* The whole lines of file f that are not blank.
ContentLines(f) ==
    {se \in CompleteLines(file[f]) : ~IsBlankLine(file[f], se)}

\* C13: after a stop and a restart the tailer resumes where it was: whenever
\* the poll thread is between two ticks with the stored offset at the end of
\* the file, every content line, those written while the agent was down
\* included, has a record, and no line ever has two.
C13_RestartResumesAtOffset ==
    \A f \in DOMAIN file_positions :
        \A se \in ContentLines(f) :
            LET n == Cardinality(RecordsOfLine(file[f], se))
            IN /\ n <= 1
               /\ (/\ restarts > 0
                   /\ pc["poll"] = "poll_top"
                   /\ file_positions[f] = Len(file[f])) => n = 1

\* C14: what the position store gives back at startup is what was saved at
\* shutdown: the offsets start() begins with after a restart are the offsets
\* the agent had when it exited.
C14_LoadReturnsWhatWasSaved ==
    [][(/\ restarts > 0
        /\ pc["main"] = "validated"
        /\ pc'["main"] = "main_loop") => file_positions' = at_shutdown]_vars

\* C15: with the poll thread the only caller of _flush_logs and every send
\* answered 201, a flush starts exactly when the buffer holds BatchSize
\* records and sends exactly those; so between appends, after n appends,
\* n - (n mod BatchSize) records have been sent, in floor(n / BatchSize)
\* flushes, and n mod BatchSize are in the buffer.
C15_FlushEveryBatchSizeAppends ==
    NoSendFailed =>
        LET n == Len(appended)
        IN /\ pc["poll"] = "flush_check" => Len(log_buffer) = BatchSize
           /\ Holding("poll") => Len(logs_to_send["poll"]) = BatchSize
           /\ pc["poll"] \in {"poll_top", "check", "read"} =>
                 /\ Len(log_buffer) = n % BatchSize
                 /\ Cardinality(acked) = n - (n % BatchSize)

\* C15 witness: BatchSize + 1 records were appended, one flush has sent the
\* first BatchSize of them and one record is left in the buffer.
C15_Witness ==
    /\ NoSendFailed
    /\ pc["poll"] = "poll_top"
    /\ Len(appended) = BatchSize + 1
    /\ Cardinality(acked) = BatchSize
    /\ Len(log_buffer) = 1

\* The line se of c holds nothing but blanks before its terminator.
OnlyWhitespace(c, se) == \A j \in (se[1] + 1)..se[2] : c[j][1] \in {" ", "\n"}
\* The whole lines of c that end at or before position p and hold content.
ContentLinesBelow(c, p) ==
    {se \in CompleteLines(c) : se[2] <= p /\ ~OnlyWhitespace(c, se)}
\* c is two content lines followed by one blank line, and nothing else.
TwoLinesThenBlank(c) ==
    \E a, b, d \in CompleteLines(c) :
        /\ a[1] = 0 /\ b[1] = a[2] /\ d[1] = b[2] /\ d[2] = Len(c)
        /\ ~OnlyWhitespace(c, a) /\ ~OnlyWhitespace(c, b)
        /\ OnlyWhitespace(c, d)
\* The end of the second line of c.
EndOfSecondLine(c) ==
    CHOOSE p \in 0..Len(c) :
        \E a, b \in CompleteLines(c) : a[1] = 0 /\ b[1] = a[2] /\ b[2] = p
\* This step ends the first tick that read anything of f, which was empty when
\* the agent started.
FirstTickEnds(f) == file_positions[f] = 0 /\ file_positions'[f] > 0

\* C16 as stated: the tick over two content lines and a blank one appended to
\* an empty file yields two records and stores the byte length of the two
\* content lines.
C16_OffsetAfterTwoContentLines ==
    [][\A f \in DOMAIN file_positions :
          (FirstTickEnds(f) /\ TwoLinesThenBlank(file[f])) =>
              /\ Len(appended') = 2
              /\ file_positions'[f] = EndOfSecondLine(file[f])]_vars

\* C16 amended: a tick yields one record per content line it consumed and none
\* for a blank line; over two content lines and a blank one it yields two
\* records and stores the byte length of all three lines, the file size.
C16_OffsetAfterAllConsumedLines ==
    [][\A f \in DOMAIN file_positions :
          FirstTickEnds(f) =>
              /\ Len(appended') =
                    Cardinality(ContentLinesBelow(file[f], file_positions'[f]))
              /\ TwoLinesThenBlank(file[f]) =>
                    /\ Len(appended') = 2
                    /\ file_positions'[f] = Len(file[f])
                    /\ file_positions'[f] > EndOfSecondLine(file[f])]_vars

\* C16 witness: the tick over two content lines and a blank one has ended with
\* two records and the offset at the end of the file.
C16_Witness ==
    /\ pc["poll"] = "poll_top"
    /\ \E f \in DOMAIN file_positions :
          /\ TwoLinesThenBlank(file[f])
          /\ file_positions[f] = Len(file[f])
    /\ Len(appended) = 2

\* The ids of a sequence of records go up.
Ascending(batch) ==
    \A i, j \in 1..Len(batch) : i < j => batch[i].id < batch[j].id

C18_EverySenderFallsBackOn401 ==
    \A k \in Senders :
        LET r == tele[k].requests
        IN (/\ tele[k].pc = "answered"
            /\ ~r[1].outcome.exc
            /\ r[1].outcome.status = 401) =>
               /\ Len(r) = 2
               /\ r[2].auth = [authorization |-> FALSE, api_key |-> TRUE]

\* C19: while the agent keeps running, with the loop threads scheduled fairly
\* and sends succeeding again and again, every record appended to the buffer
\* is eventually in a batch the server acknowledged with 201.
C19_EveryRecordEventuallyAcked ==
    \A i \in 1..MaxLines : (Len(appended) >= i) ~> (i \in acked)

\* C20: the loop threads run only when the configuration was valid, and once
\* stop() has set the running flag to false it never becomes true again, so
\* the agent never goes back from Stopping to Running.
C20_StoppedNeverRunsAgain ==
    /\ []((\E t \in {"poll", "flush"} : pc[t] # "unstarted")
             => \A k \in RequiredFields : config[k] = "set")
    /\ [][(signals > 0 /\ ~running) => ~running']_vars

\* C21: once the running flag is false no loop thread starts new work: a loop
\* whose sleep ends with the flag already false begins neither a flush nor a
\* poll of the files.
C21_NoNewWorkOnceStopped ==
    [][~running =>
          /\ ~(pc["flush"] = "sleep" /\ pc'["flush"] = "flush_check")
          /\ ~(pc["poll"] = "poll_top" /\ pc'["poll"] = "check")]_vars

\* A termination signal was delivered while the agent was Running (the main
\* thread in its wait loop).
StoppedWhileRunning == signals > 0 /\ resume = "main_loop"

\* C22: after a termination signal received in Running the flag is false and
\* stays false, the agent eventually reaches Terminated (the final flush of
\* stop() returns and the main loop exits), and a loop thread that comes to
\* its loop test leaves the loop and never enters it again.
C22_SignalInRunningTerminates ==
    /\ StoppedWhileRunning ~> (pc["main"] = "terminated")
    /\ [](StoppedWhileRunning => ~running)
    /\ [][StoppedWhileRunning =>
            /\ pc["flush"] = "loop_top" => pc'["flush"] \in {"loop_top", "done"}
            /\ pc["poll"] = "poll_top" => pc'["poll"] \in {"poll_top", "done"}
            /\ \A t \in {"poll", "flush"} : pc[t] = "done" => pc'[t] = "done"]_vars

\* C22 witness: the agent has terminated after a signal in Running; the final
\* flush found records to send, and a loop thread had left its loop.
C22_Witness ==
    /\ pc["main"] = "terminated"
    /\ StoppedWhileRunning
    /\ acked # {}
    /\ \E t \in {"poll", "flush"} : pc[t] = "done"

\* C23: no error raised inside an iteration ends a loop: while the running
\* flag is true the poll thread and the flush thread are in their loops,
\* neither has ended.
C23_NoLoopEndsWhileRunning ==
    running => \A t \in {"poll", "flush"} : pc[t] \notin {"crashed", "done"}

\* This step is the check of ThePath ending in an I/O error: open raises for a
\* path that has something new to read, or the read raises half way.
IOErrorStep ==
    \/ /\ pc["poll"] = "check"
       /\ pc' # pc \/ poll_idx' # poll_idx
       /\ Exists(ThePath) /\ ~Opens(ThePath)
       /\ Len(file[ThePath]) >
             StartPosition(Len(file[ThePath]), file_positions[ThePath])
    \/ /\ pc["poll"] = "read"
       /\ pc'["poll"] # "read"
       /\ faults' = faults + 1

\* C24: an I/O error while one file is checked leaves the tick going: the next
\* configured file is checked in the same tick, the poll loop does not take
\* its backoff branch because of it (after the last file it goes where an
\* unfailing check goes), and the path keeps its entry and its offset, so the
\* next tick checks it again from there.
C24_FileErrorIsIsolated ==
    [][IOErrorStep =>
          /\ poll_idx < Len(LogFiles) =>
                pc'["poll"] = "check" /\ poll_idx' = poll_idx + 1
          /\ poll_idx = Len(LogFiles) =>
                /\ pc'["poll"] \in {"poll_top", "backoff"}
                /\ pc'["poll"] = "backoff" <=> SleepRaises(config["poll_interval"])
          /\ file_positions' = file_positions
          /\ ThePath \in DOMAIN file_positions']_vars

\* C24 witness: the check of the first file has ended in an error in this
\* tick, which is now at the second file; the first still has unread content.
C24_Witness ==
    /\ pc["poll"] = "check"
    /\ poll_idx = 2
    /\ <<LogFiles[1], "error">> \in skips
    /\ ~Opens(LogFiles[1])
    /\ Len(file[LogFiles[1]]) > file_positions[LogFiles[1]]

\* C25: at the end of a poll tick for a file that exists the stored offset is
\* at most the size the tick observed (stated for the ticks that end without
\* a read, where the size observed is the size of the file at that step; a
\* tick that saw the file shorter than the offset is one of them when the file
\* is empty).
C25_OffsetAtMostObservedSize ==
    [][(pc["poll"] = "check" /\ TickEnds(ThePath) /\ Exists(ThePath)) =>
          file_positions'[ThePath] <= Len(file[ThePath])]_vars

\* This step is the check of ThePath, a path that does not exist or whose size
\* equals the stored offset.
NothingNewStep ==
    /\ pc["poll"] = "check"
    /\ pc' # pc \/ poll_idx' # poll_idx
    /\ ~Exists(ThePath) \/ Len(file[ThePath]) = file_positions[ThePath]

\* C26: the check of a path that does not exist, or whose size equals the
\* stored offset, changes nothing: the offset map is the same (the entry
\* stays, with its value), nothing is read or appended, and no flush starts.
C26_NothingNewChangesNothing ==
    [][NothingNewStep =>
          /\ file_positions' = file_positions
          /\ ThePath \in DOMAIN file_positions'
          /\ log_buffer' = log_buffer
          /\ appended' = appended
          /\ pc'["poll"] \notin FlushPcs \cup {"read", "batch_check"}
          /\ posts' = posts /\ acked' = acked]_vars

\* C26 witness: a tick has found the first path absent and has gone on to the
\* second; the path still has the offset stored after an earlier read.
C26_Witness ==
    /\ pc["poll"] = "check"
    /\ poll_idx = 2
    /\ <<LogFiles[1], "absent">> \in skips
    /\ ~Exists(LogFiles[1])
    /\ file_positions[LogFiles[1]] > 0

\* The inner except dropped the line of f that starts at offset o.
Dropped(f, o) == <<f, o>> \in dropped

\* C27: a line whose record construction raises is dropped and the tick goes
\* on: no record is ever made for it (the offset moves past it, it is not
\* read again), every other content line below the stored offset has its one
\* record, the records are in file order, and the tick ends with the offset
\* at the end of the file.
C27_DroppedLineDoesNotStopTick ==
    /\ [](\A f \in DOMAIN file_positions :
            \A se \in CompleteLines(file[f]) :
                LET n == Cardinality(RecordsOfLine(file[f], se))
                IN /\ Dropped(f, se[1]) => n = 0
                   /\ se[2] <= file_positions[f] =>
                         n = IF IsBlankLine(file[f], se) \/ Dropped(f, se[1])
                             THEN 0 ELSE 1)
    /\ [](\A i, j \in 1..Len(appended) : i < j => offsets[i] < offsets[j])
    /\ [][OffsetFollowsSize]_vars

\* C27 witness: a read that started at the stored offset has dropped one line
\* and forwarded a later one, and has come to the end of the file.
C27_Witness ==
    /\ pc["poll"] = "read"
    /\ ThePath = AppLog
    /\ rd_pos = Len(file[AppLog])
    /\ \E o \in file_positions[AppLog]..Len(file[AppLog]) :
          /\ Dropped(AppLog, o)
          /\ \E i \in 1..Len(appended) : offsets[i] > o

\* Record r was made from bytes that were in its file when start() stored the
\* offsets.
FromBeforeStart(r) ==
    \E k \in 1..Len(r.message) : r.message[k][2] <= boot.written

\* The line se of c was in the file when start() stored the offsets.
LineFromBeforeStart(c, se) == c[se[2]][2] <= boot.written

\* C28: start() stores an offset for every configured path before the poll
\* loop runs: the end of the file for a path that exists, is readable and
\* opens, so that nothing that was in the file then is forwarded, and 0 for a
\* path that is missing, unreadable or whose open fails, so that the first
\* read of it forwards every content line the file held at startup.
C28_StartupOffsets ==
    /\ [](pc["poll"] # "unstarted" => DOMAIN file_positions = Files)
    /\ [][(pc["main"] = "validated" /\ pc'["main"] = "main_loop") =>
            /\ pc["poll"] = "unstarted"
            /\ \A f \in Files :
                  file_positions'[f] =
                      IF access[f] = "ok" THEN Len(file[f]) ELSE 0]_vars
    /\ [](\A i \in 1..Len(appended) :
            boot.positions[appended[i].source_file] > 0
                => ~FromBeforeStart(appended[i]))
    /\ [][\A f \in DOMAIN file_positions :
            FirstTickEnds(f) =>
                \A se \in ContentLines(f) :
                    LineFromBeforeStart(file[f], se) =>
                        Cardinality(RecordsOfLine(file[f], se)) >= 1]_vars

\* C28 witness: a path that could not be opened at startup, and had content
\* then, has become readable and a tick has forwarded that content and stored
\* the end of the file.
C28_Witness ==
    \E f \in DOMAIN file_positions :
        /\ boot.positions[f] = 0
        /\ file_positions[f] = Len(file[f])
        /\ \E i \in 1..Len(appended) :
              appended[i].source_file = f /\ FromBeforeStart(appended[i])

\* What the heartbeat thread does in a step that changes its part of the state.
HeartbeatStep == tele'["heartbeat"] # tele["heartbeat"]

FlushOnEmpty(t) ==
    /\ pc[t] = "flush_check"
    /\ log_buffer = <<>>
    /\ pc'[t] # pc[t]

\* C30: a call of _flush_logs that finds the buffer empty returns at once to
\* its caller: it makes no POST, and the buffer, the stored offsets, the
\* running flag and the record of acknowledged and failed sends are as they
\* were.
C30_FlushOnEmptyBufferIsNoOp ==
    [][\A t \in Threads :
          FlushOnEmpty(t) =>
              /\ pc'[t] = Return(t)
              /\ posts' = posts
              /\ log_buffer' = log_buffer
              /\ file_positions' = file_positions
              /\ running' = running
              /\ acked' = acked
              /\ send_failures' = send_failures
              /\ logs_to_send' = logs_to_send]_vars

C30_Witness ==
    /\ signals > 0
    /\ ~running
    /\ pc["main"] = "main_loop"
    /\ appended = <<>>
    /\ \A t \in Threads : posts[t] = <<>>

\* An error ends the read of the file in progress in this step.
ReadAborts ==
    /\ pc["poll"] = "read"
    /\ pc'["poll"] # "read"
    /\ faults' = faults + 1

\* The line record i was made of is still in file f where it was read.
StillInFile(f, i) ==
    /\ offsets[i] < Len(file[f])
    /\ Strip(SubSeq(file[f], offsets[i] + 1, LineEnd(file[f], offsets[i])))
          = appended[i].message

\* Record i has a later record made of the same line at the same offset.
ReadAgain(i) ==
    \E j \in (i + 1)..Len(appended) :
        /\ appended[j].message = appended[i].message
        /\ appended[j].source_file = appended[i].source_file
        /\ offsets[j] = offsets[i]

\* C31: once the poll loop runs, the stored offset of a file changes only in
\* the step that ends a read at the end of the file, where it becomes the
\* stream position; a read that an error ends leaves the stored offsets, the
\* buffer and the records appended so far as they were; and when a later read
\* of the file runs to its end, every line an ended read had appended, and
\* that is still in the file, has been appended once more.
C31_OffsetStoredOnlyByCompletedRead ==
    /\ [][\A f \in DOMAIN file_positions :
            file_positions'[f] # file_positions[f] =>
                /\ pc["poll"] = "read"
                /\ ThePath = f
                /\ rd_pos >= Len(file[f])
                /\ faults' = faults
                /\ file_positions'[f] = rd_pos]_vars
    /\ [][ReadAborts =>
            /\ file_positions' = file_positions
            /\ log_buffer' = log_buffer
            /\ appended' = appended]_vars
    /\ [][\A f \in DOMAIN file_positions :
            file_positions'[f] # file_positions[f] =>
                \A i \in aborted :
                    (appended[i].source_file = f /\ StillInFile(f, i))
                        => ReadAgain(i)]_vars

\* C31 witness: a read of the first file was ended by an error after it had
\* appended a record; the record is still in the buffer, followed by the
\* record the next read made of the same line, while the stored offset is
\* still the one from before the ended read.
C31_Witness ==
    \E i \in aborted :
        /\ appended[i].source_file = AppLog
        /\ StillInFile(AppLog, i)
        /\ ReadAgain(i)
        /\ \E k \in 1..Len(log_buffer) : log_buffer[k].id = i
        /\ file_positions[AppLog] <= offsets[i]

\* The poll thread appends a record in this step.
PollAppends == Len(appended') = Len(appended) + 1

\* The number of failed sends record k of the buffer has been part of.
FailedSends(k) == send_failures[log_buffer[k].id]

\* C32: with the tailer alone, a buffer of batch-size records or more outside
\* a flush is one whose send has just failed; while it is that long, every
\* append is followed by the length test sending the poll thread into
\* _flush_logs, which copies the whole buffer and POSTs that copy, so that at
\* the next append every record of the buffer has been part of a failed send
\* and the record of the line before of exactly one.
C32_FullBufferFlushesOnEveryAppend ==
    /\ [](pc["poll"] \in {"poll_top", "check", "read"} /\ BufferFull(log_buffer)
            => \A k \in 1..Len(log_buffer) : FailedSends(k) >= 1)
    /\ [][(PollAppends /\ Len(log_buffer) >= BatchSize) =>
            /\ pc'["poll"] = "batch_check"
            /\ log_buffer' = Append(log_buffer, appended'[Len(appended')])
            /\ FailedSends(Len(log_buffer)) = 1]_vars
    /\ [][(/\ pc["poll"] = "batch_check"
           /\ pc'["poll"] # "batch_check"
           /\ Len(log_buffer) >= BatchSize) => pc'["poll"] = "flush_check"]_vars
    /\ [][(pc["poll"] = "flush_check" /\ pc'["poll"] # "flush_check"
             /\ log_buffer # <<>>) => pc'["poll"] = "flush_copy"]_vars
    /\ [][(pc["poll"] = "flush_copy" /\ pc'["poll"] # "flush_copy") =>
            /\ logs_to_send'["poll"] = log_buffer
            /\ pc'["poll"] = "flush_clear"]_vars
    /\ [][(pc["poll"] = "flush_clear" /\ pc'["poll"] # "flush_clear") =>
            /\ Ids(logs_to_send'["poll"]) = Ids(logs_to_send["poll"])
            /\ pc'["poll"] = "flush_post"]_vars
    /\ [][(pc["poll"] = "flush_post" /\ pc'["poll"] # "flush_post") =>
            /\ Len(posts'["poll"]) = 1
            /\ posts'["poll"][1].body = logs_to_send["poll"]]_vars

\* C32 witness: the tailer is between two lines with a buffer longer than the
\* batch size: the newest record has been part of one failed send, the one
\* before it of two.
C32_Witness ==
    /\ pc["poll"] = "read"
    /\ Len(log_buffer) > BatchSize
    /\ FailedSends(Len(log_buffer)) = 1
    /\ FailedSends(Len(log_buffer) - 1) = 2
    /\ acked = {}

\* Thread t puts its failed batch back in this step.
Readmits(t) ==
    /\ pc[t] = "flush_result"
    /\ pc'[t] # "flush_result"
    /\ ~Succeeded(response[t])

\* The buffer is the last records appended, in the order they were appended.
NewestInAppendOrder(buffer) ==
    buffer = SubSeq(appended, Len(appended) - Len(buffer) + 1, Len(appended))

====
